---- MODULE Spec2Model ----
(***************************************************************************)
(* Model of the data-transformation pipeline of the waste dashboard:       *)
(* the loaders (loadWasteData, the module-level loader of wasteData.js,    *)
(* MaterialStreamGraph.loadCSVData, the standalone script of wasteData.js) *)
(* and the shape builders of utils/dataProcessing.js together with the     *)
(* aggregations that the views TimeSeriesChart, WasteCategoryChart and     *)
(* MaterialTreemapChart redo on their own, and the load effect of App.     *)
(*                                                                         *)
(* A WasteRecord keeps the four fields the pipeline reads (Year, Category, *)
(* MaterialType, Weight); Month, Day, Vendor, DateUpdated and Cost are     *)
(* passthrough strings no builder reads.                                   *)
(***************************************************************************)
EXTENDS Integers, Sequences, FiniteSets, TLC

\* ------------------------------------------------------------------ bounds
\* Longest record sequence handed to a builder.
MaxLen == 2
\* Heaviest record.
MaxWeight == 2
\* Longest raw "Weight (lbs)" field of a CSV row.
MaxStrLen == 2
\* Most rows of a CSV source.
MaxRows == 2

\* Two years whose decimal spellings have different lengths.
Years == {999, 2024}
\* "Recycle" is the spelling of the source file, "Recycling" the normalized
\* one; "Reuse" is a category that occurs in the source file.
Categories == {"Landfill", "Recycle", "Recycling", "Compost", "Reuse"}
\* A material may be called like a category.
MaterialTypes == {"Paper", "Landfill"}
\* A record weighs 1 or MaxWeight.
Weights == {1, MaxWeight}

\* The records a loader can return: Year truthy, Category non-empty, Weight > 0.
Records == [Year : Years, Category : Categories, MaterialType : MaterialTypes, Weight : Weights]

\* The optional year argument of a builder: a number or undefined.
Undefined == [t |-> "undefined"]
Num(n) == [t |-> "num", v |-> n]
YearArgs == {Undefined} \cup {Num(y) : y \in Years}

\* ------------------------------------------------------- array primitives
\* The functions of ECMAScript and d3-array the pipeline is written with.
\* Array.prototype.map
Map(s, F(_)) == [i \in 1..Len(s) |-> F(s[i])]

\* Array.prototype.filter
Filter(s, P(_)) == SelectSeq(s, P)

RECURSIVE SumFrom(_, _)
SumFrom(s, i) == IF i > Len(s) THEN 0 ELSE s[i] + SumFrom(s, i + 1)

\* d3.sum(values, accessor)
d3sum(s, F(_)) == SumFrom(Map(s, F), 1)

RECURSIVE UniqFrom(_, _, _)
UniqFrom(s, i, acc) ==
  IF i > Len(s) THEN acc
  ELSE UniqFrom(s, i + 1,
                IF \E j \in 1..Len(acc) : acc[j] = s[i] THEN acc ELSE Append(acc, s[i]))

\* Array.from(new Set(values)): the distinct values in first-appearance order.
ArrayFromSet(s) == UniqFrom(s, 1, <<>>)

\* d3.group(values, key): an insertion-ordered Map, as the sequence of its
\* [key, values] entries.
d3group(s, K(_)) ==
  LET keys == ArrayFromSet(Map(s, K))
  IN  [i \in 1..Len(keys) |-> <<keys[i], Filter(s, LAMBDA d : K(d) = keys[i])>>]

\* d3.rollup(values, v => d3.sum(v, d => d.Weight), key)
d3rollupWeight(s, K(_)) ==
  LET g == d3group(s, K)
  IN  [i \in 1..Len(g) |-> <<g[i][1], d3sum(g[i][2], LAMBDA d : d.Weight)>>]

\* Array.prototype.findIndex: the 0-based index of the first match, or -1.
findIndex(s, P(_)) ==
  IF \E i \in 1..Len(s) : P(s[i])
  THEN (CHOOSE i \in 1..Len(s) : P(s[i]) /\ \A j \in 1..(i - 1) : ~P(s[j])) - 1
  ELSE -1

\* Array.prototype.find: the first match, or undefined (here: whether there is one).
hasMatch(s, P(_)) == \E i \in 1..Len(s) : P(s[i])

\* One step of a stable insertion sort: x goes right after the last element
\* that compare does not put after it.
InsertSorted(sorted, x, Cmp(_, _)) ==
  LET keep == {j \in 1..Len(sorted) : Cmp(sorted[j], x) <= 0}
      k    == IF keep = {} THEN 0 ELSE CHOOSE j \in keep : \A i \in keep : i <= j
  IN  SubSeq(sorted, 1, k) \o <<x>> \o SubSeq(sorted, k + 1, Len(sorted))

\* Array.prototype.sort(compare): stable; x stays before y unless compare(x, y) > 0.
sort(s, Cmp(_, _)) ==
  LET f[i \in 0..Len(s)] == IF i = 0 THEN <<>> ELSE InsertSorted(f[i - 1], s[i], Cmp)
  IN  f[Len(s)]

\* The least of a set of positions, or 0 when there is none.
First(I) == IF I = {} THEN 0 ELSE CHOOSE i \in I : \A j \in I : i <= j

RECURSIVE AscendingFrom(_)
AscendingFrom(S) ==
  IF S = {} THEN <<>>
  ELSE LET m == CHOOSE x \in S : \A y \in S : x <= y
       IN  <<m>> \o AscendingFrom(S \ {m})

\* Object.values(o) of an object whose keys are integer-like: ascending key order.
ObjectValues(o) == LET keys == AscendingFrom(DOMAIN o) IN [i \in 1..Len(keys) |-> o[keys[i]]]

\* The array index a property name is the canonical spelling of, or -1: of the
\* material names of the model only "9" and "10" are such names.
ArrayIndexOf(name) == CASE name = "9" -> 9 [] name = "10" -> 10 [] OTHER -> -1

\* The own keys of a plain object, as Object.values and Object.entries walk
\* them, when its keys were added in the order `inserted`: the array indices
\* in ascending numeric order, then the other names in insertion order.
OwnKeys(inserted) ==
  LET isIndex(k) == ArrayIndexOf(k) >= 0
      other(k)   == ArrayIndexOf(k) < 0
  IN  sort(Filter(inserted, isIndex), LAMBDA a, b : ArrayIndexOf(a) - ArrayIndexOf(b))
        \o Filter(inserted, other)

\* Array.prototype.slice(0, k)
slice(s, k) == SubSeq(s, 1, IF Len(s) < k THEN Len(s) ELSE k)

RECURSIVE DigitsOf(_)
\* String(n) for an integer n >= 0, as the sequence of its decimal digits.
DigitsOf(n) == IF n < 10 THEN <<n>> ELSE Append(DigitsOf(n \div 10), n % 10)

\* a < b for two strings of digits, compared by UTF-16 code units.
StringLess(a, b) ==
  \E k \in 1..(Len(b)) :
    /\ \A j \in 1..(k - 1) : j <= Len(a) /\ a[j] = b[j]
    /\ \/ k = Len(a) + 1
       \/ k <= Len(a) /\ a[k] < b[k]

\* The compare of Array.prototype.sort() called without a function: by String(x).
DefaultCompare(a, b) ==
  IF StringLess(DigitsOf(a), DigitsOf(b)) THEN -1
  ELSE IF StringLess(DigitsOf(b), DigitsOf(a)) THEN 1 ELSE 0

\* The characters of the category names, for String.prototype methods.
Chars(c) ==
  CASE c = "Landfill"  -> <<"L", "a", "n", "d", "f", "i", "l", "l">>
    [] c = "Recycle"   -> <<"R", "e", "c", "y", "c", "l", "e">>
    [] c = "Recycling" -> <<"R", "e", "c", "y", "c", "l", "i", "n", "g">>
    [] c = "Compost"   -> <<"C", "o", "m", "p", "o", "s", "t">>
    [] c = "Reuse"     -> <<"R", "e", "u", "s", "e">>
    [] c = "landfill"  -> <<"l", "a", "n", "d", "f", "i", "l", "l">>
    [] c = "recycl"    -> <<"r", "e", "c", "y", "c", "l">>
    [] c = "compost"   -> <<"c", "o", "m", "p", "o", "s", "t">>

LowerChar(ch) ==
  CASE ch = "L" -> "l" [] ch = "R" -> "r" [] ch = "C" -> "c" [] OTHER -> ch

\* String.prototype.toLowerCase
toLowerCase(s) == Map(s, LowerChar)

\* String.prototype.includes
includes(s, sub) == \E i \in 0..(Len(s) - Len(sub)) : SubSeq(s, i + 1, i + Len(sub)) = sub

\* `value ? ... : ...` on a year argument: undefined and 0 are falsy.
Truthy(y) == y.t = "num" /\ y.v # 0

\* d.Year === year
StrictEq(n, y) == y.t = "num" /\ y.v = n

\* d.Weight || 0
OrZero(w) == IF w = 0 THEN 0 ELSE w

\* ------------------------------------------------------------------ state
VARIABLES
  data,     \* the record sequence the builders are called with
  result,   \* the builder call made on data: its name, its year argument, its output
  csv,      \* the rows d3.csv resolves to: each a mapping of header to string
  loaded,   \* the loader that ran on csv and the records it produced
  app,      \* the state of the App component and the position of its fetchData
  again,    \* the call that repeats the call of result
  view      \* the state of an interactive view: what it shows and what is selected

vars == <<data, result, csv, loaded, app, again, view>>

RECURSIVE SeqsUpTo(_, _)
SeqsUpTo(S, n) ==
  IF n = 0 THEN {<<>>}
  ELSE LET shorter == SeqsUpTo(S, n - 1)
       IN  shorter \cup {Append(s, x) : s \in {t \in shorter : Len(t) = n - 1}, x \in S}

NoCall == [op |-> "none"]
NoView == [of |-> "none"]
\* loaded before any loader ran. Once one ran: by names it, read tells whether
\* d3.csv resolved, input are the rows it was given, weights are the weights it parsed (one per row, before any
\* filter), rows is the record set it ends with, error is what became of an
\* exception ("none", "caught", or the exception nothing handles).
NotLoaded ==
  [by |-> "none", read |-> TRUE, input |-> <<>>, weights |-> <<>>, rows |-> <<>>, error |-> "none"]

\* ---------------------------------------------------------- time series
\* prepareTimeSeriesData(data)
prepareTimeSeriesData(d) ==
  LET yearGroups == d3group(d, LAMBDA r : r.Year)
      entry(g) ==
        LET yearData  == g[2]
            landfill  == d3sum(Filter(yearData, LAMBDA r : r.Category = "Landfill"), LAMBDA r : r.Weight)
            recycling == d3sum(Filter(yearData, LAMBDA r : r.Category = "Recycle"), LAMBDA r : r.Weight)
            compost   == d3sum(Filter(yearData, LAMBDA r : r.Category = "Compost"), LAMBDA r : r.Weight)
        IN  [year |-> g[1], landfill |-> landfill, recycling |-> recycling,
             compost |-> compost, total |-> landfill + recycling + compost]
  IN  sort(Map(yearGroups, entry), LAMBDA a, b : a.year - b.year)

\* processData(data).years
processDataYears(d) == sort(ArrayFromSet(Map(d, LAMBDA r : r.Year)), DefaultCompare)

\* processData(data).timeSeriesData
processDataTimeSeries(d) ==
  LET entry(year) ==
        LET yearData == Filter(d, LAMBDA r : r.Year = year)
        IN  [year      |-> year,
             landfill  |-> d3sum(Filter(yearData, LAMBDA r : r.Category = "Landfill"), LAMBDA r : OrZero(r.Weight)),
             recycling |-> d3sum(Filter(yearData, LAMBDA r : r.Category = "Recycle"), LAMBDA r : OrZero(r.Weight)),
             compost   |-> d3sum(Filter(yearData, LAMBDA r : r.Category = "Compost"), LAMBDA r : OrZero(r.Weight))]
  IN  Map(processDataYears(d), entry)

\* One step of the forEach of the TimeSeriesChart effect: record r into groupedByYear.
groupedByYearStep(grouped, r) ==
  LET year     == r.Year
      category == toLowerCase(Chars(r.Category))
      weight   == r.Weight
      g0       == IF year \in DOMAIN grouped THEN grouped
                  ELSE [k \in DOMAIN grouped \cup {year} |->
                          IF k = year THEN [year |-> year, landfill |-> 0, recycling |-> 0, compost |-> 0]
                          ELSE grouped[k]]
  IN  IF includes(category, Chars("landfill"))
        THEN [g0 EXCEPT ![year].landfill = @ + weight]
      ELSE IF includes(category, Chars("recycl"))
        THEN [g0 EXCEPT ![year].recycling = @ + weight]
      ELSE IF includes(category, Chars("compost"))
        THEN [g0 EXCEPT ![year].compost = @ + weight]
      ELSE g0

\* The effect of TimeSeriesChart that turns its data prop into processedData.
TimeSeriesChartProcess(d) ==
  LET f[i \in 0..Len(d)] == IF i = 0 THEN << >> ELSE groupedByYearStep(f[i - 1], d[i])
  IN  sort(ObjectValues(f[Len(d)]), LAMBDA a, b : a.year - b.year)

\* ---------------------------------------------------------------- graph
\* d.Category === 'Recycle' ? 'Recycling' : d.Category
normalizeCategory(c) == IF c = "Recycle" THEN "Recycling" ELSE c

\* year ? data.filter(d => d.Year === year) : data
filterByYear(d, year) == IF Truthy(year) THEN Filter(d, LAMBDA r : StrictEq(r.Year, year)) ELSE d

\* networkLink with a link value of 1 in place of the record's weight.
networkLinkCountsRecords(nodes, r) ==
  LET sourceName == r.MaterialType
      targetName == normalizeCategory(r.Category)
  IN  [source     |-> findIndex(nodes, LAMBDA n : n.name = sourceName),
       target     |-> findIndex(nodes, LAMBDA n : n.name = targetName),
       value      |-> 1,
       sourceName |-> sourceName,
       targetName |-> targetName]

\* The link prepareNetworkData makes of one record.
networkLink(nodes, r) ==
  LET sourceName == r.MaterialType
      targetName == normalizeCategory(r.Category)
  IN  [source     |-> findIndex(nodes, LAMBDA n : n.name = sourceName),
       target     |-> findIndex(nodes, LAMBDA n : n.name = targetName),
       value      |-> r.Weight,
       sourceName |-> sourceName,
       targetName |-> targetName]

\* prepareNetworkData(data, year)
prepareNetworkData(d, year) ==
  LET yearData      == filterByYear(d, year)
      categories    == ArrayFromSet(Map(yearData, LAMBDA r : normalizeCategory(r.Category)))
      materialTypes == ArrayFromSet(Map(yearData, LAMBDA r : r.MaterialType))
      nodes         == Map(categories, LAMBDA name : [name |-> name, type |-> "category"])
                       \o Map(materialTypes, LAMBDA name : [name |-> name, type |-> "material"])
  IN  IF Len(yearData) = 0 THEN [nodes |-> <<>>, links |-> <<>>]
      ELSE [nodes |-> nodes, links |-> Map(yearData, LAMBDA r : networkLink(nodes, r))]

\* nodes.push({ name }) unless nodes.find(n => n.name === name)
pushUnlessFound(nodes, name) ==
  IF hasMatch(nodes, LAMBDA n : n.name = name) THEN nodes ELSE Append(nodes, [name |-> name])

\* processData(data).networkData(year)
getNetworkData(d, year) ==
  LET yearData == Filter(d, LAMBDA r : StrictEq(r.Year, year))
      materialNodes[i \in 0..Len(yearData)] ==
        IF i = 0 THEN <<>> ELSE pushUnlessFound(materialNodes[i - 1], yearData[i].MaterialType)
      targets == <<"Landfill", "Recycling", "Compost">>
      allNodes[i \in 0..Len(targets)] ==
        IF i = 0 THEN materialNodes[Len(yearData)] ELSE pushUnlessFound(allNodes[i - 1], targets[i])
      nodes == allNodes[Len(targets)]
      link(r) ==
        LET targetName == IF r.Category = "Recycle" THEN "Recycling" ELSE r.Category
        IN  [source |-> findIndex(nodes, LAMBDA n : n.name = r.MaterialType),
             target |-> findIndex(nodes, LAMBDA n : n.name = targetName),
             value  |-> OrZero(r.Weight)]
  IN  [nodes |-> nodes, links |-> Map(yearData, link)]

RECURSIVE Flatten(_)
\* The concatenation of a sequence of sequences (forEach ... push).
Flatten(ss) == IF ss = <<>> THEN <<>> ELSE Head(ss) \o Flatten(Tail(ss))

\* The nodes and links WasteCategoryChart derives of the records it is given.
WasteCategoryChartGraph(actualData) ==
  LET categories    == ArrayFromSet(Map(actualData, LAMBDA r : normalizeCategory(r.Category)))
      materialTypes == ArrayFromSet(Map(actualData, LAMBDA r : r.MaterialType))
      categoryNode(name) ==
        [id |-> name, name |-> name, type |-> "category",
         value |-> d3sum(Filter(actualData, LAMBDA r : normalizeCategory(r.Category) = name),
                         LAMBDA r : r.Weight),
         radius |-> 30]
      materialNode(name) ==
        LET materialData == Filter(actualData, LAMBDA r : r.MaterialType = name)
        IN  [id |-> name, name |-> name, type |-> "material",
             value |-> d3sum(materialData, LAMBDA r : r.Weight),
             categories |-> Map(d3rollupWeight(materialData, LAMBDA r : normalizeCategory(r.Category)),
                                LAMBDA e : [category |-> e[1], weight |-> e[2]]),
             radius |-> 15]
      linksOf(material) ==
        LET materialData   == Filter(actualData, LAMBDA r : r.MaterialType = material)
            categoryTotals == d3rollupWeight(materialData, LAMBDA r : normalizeCategory(r.Category))
        IN  Map(categoryTotals, LAMBDA e : [source |-> material, target |-> e[1], value |-> e[2]])
  IN  [nodes |-> Map(categories, categoryNode) \o Map(materialTypes, materialNode),
       links |-> Flatten(Map(materialTypes, linksOf))]

\* ------------------------------------------------------------ hierarchy
\* Array.from(rollup, ([name, value]) => ({ name, value }))
\*   .filter(item => item.value > 0).sort((a, b) => b.value - a.value)
compositionChildren(rollup) ==
  sort(Filter(Map(rollup, LAMBDA e : [name |-> e[1], value |-> e[2]]), LAMBDA item : item.value > 0),
       LAMBDA a, b : b.value - a.value)

\* prepareCompositionData(data, year)
prepareCompositionData(d, year) ==
  LET yearData == filterByYear(d, year)
      rollupOf(category) ==
        d3rollupWeight(Filter(yearData, LAMBDA r : r.Category = category), LAMBDA r : r.MaterialType)
      raw == << [name |-> "Landfill",  children |-> rollupOf("Landfill")],
                [name |-> "Recycling", children |-> rollupOf("Recycle")],
                [name |-> "Compost",   children |-> rollupOf("Compost")] >>
  IN  [name     |-> "Total Waste",
       children |-> Map(raw, LAMBDA category :
                      [name |-> category.name, children |-> compositionChildren(category.children)])]

\* processData(data).compositionData(year)
getCompositionData(d, year) ==
  LET yearData == Filter(d, LAMBDA r : StrictEq(r.Year, year))
      leavesOf(category) ==
        Map(Filter(yearData, LAMBDA r : r.Category = category),
            LAMBDA r : [name |-> r.MaterialType, value |-> OrZero(r.Weight)])
  IN  [name     |-> "Total Waste",
       children |-> << [name |-> "Landfill",  children |-> leavesOf("Landfill")],
                       [name |-> "Recycling", children |-> leavesOf("Recycle")],
                       [name |-> "Compost",   children |-> leavesOf("Compost")] >>]

\* --------------------------------------------------------- distribution
\* The number of materials prepareDistributionData keeps.
PrepareDistributionTop == 12
\* The number of materials processData(data).distributionData keeps.
GetDistributionTop == 10

\* prepareDistributionData(data, year)
prepareDistributionData(d, year) ==
  LET yearData       == filterByYear(d, year)
      materialGroups == d3group(yearData, LAMBDA r : r.MaterialType)
      entry(g) ==
        [name        |-> g[1],
         totalWeight |-> d3sum(g[2], LAMBDA r : r.Weight),
         categories  |-> Map(d3rollupWeight(g[2], LAMBDA r : r.Category),
                             LAMBDA e : [name |-> e[1], value |-> e[2]])]
  IN  slice(sort(Map(materialGroups, entry), LAMBDA a, b : b.totalWeight - a.totalWeight),
            PrepareDistributionTop)

\* processData(data).distributionData(year): materialGroups is a plain object
\* keyed by material name.
getDistributionData(d, year) ==
  LET yearData == Filter(d, LAMBDA r : StrictEq(r.Year, year))
      inserted == ArrayFromSet(Map(yearData, LAMBDA r : r.MaterialType))
      group(name) ==
        LET items == Filter(yearData, LAMBDA r : r.MaterialType = name)
        IN  [name        |-> name,
             category    |-> items[1].Category,
             totalWeight |-> d3sum(items, LAMBDA r : OrZero(r.Weight)),
             values      |-> Map(items, LAMBDA r : [category |-> r.Category, weight |-> OrZero(r.Weight)])]
  IN  slice(sort(Map(OwnKeys(inserted), group), LAMBDA a, b : b.totalWeight - a.totalWeight),
            GetDistributionTop)

\* -------------------------------------------------------------- treemap
\* MaterialTreemapChart.createSampleData()
createSampleData ==
  LET category(name, id) == [name |-> name, type |-> "category", id |-> id]
      material(name, id) == [name |-> name, type |-> "material", id |-> id]
      link(s, t, v)      == [source |-> s, target |-> t, value |-> v]
  IN  [nodes |-> << category("Landfill", 0), category("Recycling", 1), category("Compost", 2),
                    category("Reuse", 3),
                    material("Paper", 4), material("Plastic", 5), material("Metal", 6),
                    material("Glass", 7), material("Food Waste", 8), material("Yard Waste", 9),
                    material("Mixed Organics", 10), material("Construction & Demolition", 11),
                    material("E-waste", 12), material("Confidential Shredding", 13),
                    material("Donations", 14), material("Mixed Recycling", 15),
                    material("Other", 16) >>,
       links |-> << link(4, 0, 30000), link(4, 1, 150000),
                    link(5, 0, 80000), link(5, 1, 120000),
                    link(6, 0, 10000), link(6, 1, 80000),
                    link(7, 0, 15000), link(7, 1, 60000),
                    link(8, 0, 50000), link(8, 2, 200000),
                    link(9, 0, 20000), link(9, 2, 180000),
                    link(10, 0, 40000), link(10, 2, 120000),
                    link(11, 0, 130000), link(11, 1, 70000),
                    link(12, 0, 5000), link(12, 1, 30000),
                    link(13, 1, 25000),
                    link(14, 3, 35000),
                    link(15, 0, 30000), link(15, 1, 220000),
                    link(16, 0, 100000) >>]

\* MaterialTreemapChart.processDataToHierarchy(rawData, categoryFilter, minWeight):
\* materialsByCategory[category] is a plain object keyed by material name.
processDataToHierarchy(rawData, categoryFilter, minWeight) ==
  LET nodes      == rawData.nodes
      isNode(i)  == i \in 0..(Len(nodes) - 1)
      categories == ArrayFromSet(Map(Filter(nodes, LAMBDA node : node.type = "category"),
                                     LAMBDA node : node.name))
      \* reading .type of nodes[i] raises when there is no such node
      raises(link) ==
        \/ ~isNode(link.source)
        \/ nodes[link.source + 1].type = "material" /\ ~isNode(link.target)
      counted(link) ==
        nodes[link.source + 1].type = "material" /\ nodes[link.target + 1].type = "category"
      flows == Map(Filter(rawData.links, counted),
                   LAMBDA link : [material |-> nodes[link.source + 1].name,
                                  category |-> nodes[link.target + 1].name,
                                  value    |-> link.value])
      entries(category) ==
        LET into == Filter(flows, LAMBDA f : f.category = category)
            keys == OwnKeys(ArrayFromSet(Map(into, LAMBDA f : f.material)))
        IN  Map(keys, LAMBDA material :
                  <<material, d3sum(Filter(into, LAMBDA f : f.material = material), LAMBDA f : f.value)>>)
      filteredCategories ==
        IF categoryFilter # "" /\ categoryFilter # "all"
        THEN Filter(categories, LAMBDA cat : cat = categoryFilter)
        ELSE categories
      categoryNode(category) ==
        [name     |-> category,
         children |-> Map(sort(Filter(entries(category), LAMBDA e : e[2] >= minWeight),
                               LAMBDA a, b : b[2] - a[2]),
                          LAMBDA e : [name |-> e[1], value |-> e[2]])]
  IN  IF \E l \in 1..Len(rawData.links) : raises(rawData.links[l])
      THEN [name |-> "Error", children |-> <<>>]
      ELSE [name     |-> "Material Distribution",
            children |-> Filter(Map(filteredCategories, categoryNode),
                                LAMBDA node : Len(node.children) > 0)]

\* The effect of MaterialTreemapChart: the hierarchy it lays out for the graph
\* it is given, the sample graph standing in for a graph without nodes.
MaterialTreemapHierarchy(actualData, categoryFilter, minWeight) ==
  LET dataToUse == IF Len(actualData.nodes) = 0 THEN createSampleData ELSE actualData
  IN  processDataToHierarchy(dataToUse, categoryFilter, minWeight)

\* --------------------------------------------------------------- loader
\* JavaScript values that are not plain numbers.
Null == [t |-> "null"]
NaN == [t |-> "NaN"]

\* The characters a raw field is made of: digits, the thousands separator,
\* a sign and a letter.
Digits == {"0", "1", "2", "4"}
WeightAlphabet == {"0", "1", ",", "-", "x"}

DigitValue(ch) == CASE ch = "0" -> 0 [] ch = "1" -> 1 [] ch = "2" -> 2 [] ch = "4" -> 4

\* str.replace(/,/g, '')
removeCommas(str) == SelectSeq(str, LAMBDA ch : ch # ",")

RECURSIVE DecimalValue(_)
DecimalValue(ds) ==
  IF ds = <<>> THEN 0 ELSE 10 * DecimalValue(SubSeq(ds, 1, Len(ds) - 1)) + DigitValue(ds[Len(ds)])

\* The longest prefix of str made of digits.
DigitPrefix(str) ==
  LET n == CHOOSE k \in 0..Len(str) :
             /\ \A j \in 1..k : str[j] \in Digits
             /\ (k < Len(str) => str[k + 1] \notin Digits)
  IN  SubSeq(str, 1, n)

\* parseFloat and parseInt on a string of these characters (no point, no
\* exponent, no blank): an optional sign, then the longest run of digits;
\* NaN when there is no digit at that place.
parseNumber(str) ==
  LET negative == str # <<>> /\ str[1] = "-"
      body     == IF negative THEN Tail(str) ELSE str
      ds       == DigitPrefix(body)
  IN  IF ds = <<>> THEN NaN
      ELSE Num(IF negative THEN 0 - DecimalValue(ds) ELSE DecimalValue(ds))

\* `row[header] ? a : b`, `row[header] || b`: a missing header (undefined) and
\* the empty string are falsy. Year and Weight (lbs) are strings of characters.
CharsTruthy(row, header) == header \in DOMAIN row /\ row[header] # <<>>

\* The same for Category and Material Type, which are kept whole.
TextTruthy(row, header) == header \in DOMAIN row /\ row[header] # ""

\* row.Year ? parseInt(row.Year) : null
parseYear(row) == IF CharsTruthy(row, "Year") THEN parseNumber(row["Year"]) ELSE Null

\* row[header] || ''
FieldOrEmpty(row, header) == IF TextTruthy(row, header) THEN row[header] ELSE ""

\* The weight loadWasteData and loadCSVData parse: commas removed, NaN becomes 0.
parseWeightOrZero(row) ==
  LET weightStr == IF CharsTruthy(row, "Weight (lbs)") THEN row["Weight (lbs)"] ELSE <<"0">>
      weight    == parseNumber(removeCommas(weightStr))
  IN  IF weight = NaN THEN Num(0) ELSE weight

\* parseWeight(row['Weight (lbs)']) of wasteData.js: 0 for a missing or empty
\* field, else parseFloat.
parseWeight(row) ==
  IF ~CharsTruthy(row, "Weight (lbs)") THEN Num(0)
  ELSE parseNumber(removeCommas(row["Weight (lbs)"]))

\* validEntry with d.Weight >= 0 in place of d.Weight > 0.
validEntryWeightNotNegative(d) ==
  /\ d.Year.t = "num" /\ d.Year.v # 0
  /\ d.Category # ""
  /\ d.Weight.t = "num" /\ d.Weight.v >= 0

\* d => d.Year && d.Category && d.Weight > 0
validEntry(d) ==
  /\ d.Year.t = "num" /\ d.Year.v # 0
  /\ d.Category # ""
  /\ d.Weight.t = "num" /\ d.Weight.v > 0

\* loadWasteData(), once d3.csv has resolved to rows
loadWasteData(rows) ==
  Filter(Map(rows, LAMBDA row :
               [Year         |-> parseYear(row),
                Category     |-> FieldOrEmpty(row, "Category"),
                MaterialType |-> FieldOrEmpty(row, "Material Type"),
                Weight       |-> parseWeightOrZero(row)]),
         validEntry)

\* The .then callback of wasteData.js: the value it assigns to wasteData.
wasteDataThen(rows) ==
  Filter(Map(rows, LAMBDA row :
               [Year         |-> parseYear(row),
                Category     |-> FieldOrEmpty(row, "Category"),
                MaterialType |-> FieldOrEmpty(row, "Material Type"),
                Weight       |-> parseWeight(row)]),
         validEntry)

\* MaterialStreamGraph.loadCSVData: rawData after the load (initially []).
loadCSVData(rows) ==
  IF Len(rows) > 0
  THEN Filter(Map(rows, LAMBDA row :
                    [Year         |-> parseYear(row),
                     Category     |-> IF "Category" \in DOMAIN row /\ row["Category"] = "Recycle" THEN "Recycling"
                                      ELSE FieldOrEmpty(row, "Category"),
                     MaterialType |-> FieldOrEmpty(row, "Material Type"),
                     Weight       |-> parseWeightOrZero(row)]),
              validEntry)
  ELSE <<>>

\* The raw rows of the model: Year and Weight (lbs) are strings of characters,
\* Category and Material Type are kept whole; a header may be missing.
RawYears == {<<"2", "0", "2", "4">>, <<"0">>, <<"x">>, <<>>}
RawCategories == {"Recycle", "Reuse", ""}
RawWeights == SeqsUpTo(WeightAlphabet, MaxStrLen)

RawRows ==
  LET typed == [Year : RawYears, Category : RawCategories, Weight : RawWeights]
      row(r, present) ==
        [h \in present |->
           CASE h = "Year" -> r.Year
             [] h = "Category" -> r.Category
             [] h = "Material Type" -> "Paper"
             [] h = "Weight (lbs)" -> r.Weight]
      headers == {"Year", "Category", "Material Type", "Weight (lbs)"}
  IN  {row(r, headers) : r \in typed}
      \cup {row(r, headers \ {h}) : r \in typed, h \in {"Year", "Category", "Weight (lbs)"}}

\* Rows that come before the last row of a source: one valid, one of weight 0.
ContextRows ==
  { [h \in {"Year", "Category", "Material Type", "Weight (lbs)"} |->
       CASE h = "Year" -> <<"2", "0", "2", "4">>
         [] h = "Category" -> "Recycle"
         [] h = "Material Type" -> "Paper"
         [] h = "Weight (lbs)" -> w] : w \in {<<"1">>, <<"0">>} }

\* The sources of the model: any raw row after up to MaxRows - 1 context rows.
CsvSources ==
  {<<>>} \cup {prefix \o <<row>> : prefix \in SeqsUpTo(ContextRows, MaxRows - 1), row \in RawRows}

\* Number(str), the unary plus of the standalone script, on a string of these
\* characters: 0 for the empty string, an optional sign and digits for a
\* number, NaN for anything else.
ToNumber(str) ==
  LET negative == str # <<>> /\ str[1] = "-"
      body     == IF negative THEN Tail(str) ELSE str
  IN  IF str = <<>> THEN Num(0)
      ELSE IF body # <<>> /\ \A j \in 1..Len(body) : body[j] \in Digits
        THEN Num(IF negative THEN 0 - DecimalValue(body) ELSE DecimalValue(body))
      ELSE NaN

\* new Date(d.Year, getMonthNumber(d.Month)) of a row without a Month column:
\* the month is undefined, the date is an Invalid Date.
InvalidDate == [t |-> "Invalid Date"]

\* d3.sum over numbers that may be NaN: NaN is skipped.
d3sumNumbers(ws) == SumFrom([i \in 1..Len(ws) |-> IF ws[i] = NaN THEN 0 ELSE ws[i].v], 1)

\* processData(data) of the standalone script of wasteData.js, in the shape of
\* loaded: each row gets weight and date; the rows are grouped by date and
\* category. Reading .replace of a missing field raises a TypeError.
scriptProcessData(rows) ==
  LET missing  == {i \in 1..Len(rows) : "Weight (lbs)" \notin DOMAIN rows[i]}
      weightOf(row) == ToNumber(removeCommas(row["Weight (lbs)"]))
      keyOf(row)    == IF "Category" \in DOMAIN row THEN row["Category"] ELSE "undefined"
      categories    == ArrayFromSet(Map(rows, keyOf))
      entry == [date   |-> InvalidDate,
                totals |-> Map(categories, LAMBDA category :
                             <<category,
                               d3sumNumbers(Map(Filter(rows, LAMBDA row : keyOf(row) = category),
                                                weightOf))>>)]
  IN  IF missing # {}
      THEN [by |-> "script", read |-> TRUE, input |-> rows,
            weights |-> Map(SubSeq(rows, 1, First(missing) - 1), weightOf),
            rows |-> <<>>, error |-> "TypeError"]
      ELSE [by |-> "script", read |-> TRUE, input |-> rows, weights |-> Map(rows, weightOf),
            rows |-> IF rows = <<>> THEN <<>> ELSE <<entry>>, error |-> "none"]

\* The rows once processData of the standalone script has run its forEach:
\* every row up to the first one that raises has got a weight and a date.
scriptRowsAfter(rows) ==
  LET missing == {i \in 1..Len(rows) : "Weight (lbs)" \notin DOMAIN rows[i]}
      done    == IF missing = {} THEN Len(rows) ELSE First(missing) - 1
      mutated(row) ==
        [h \in DOMAIN row \cup {"weight", "date"} |->
           CASE h = "weight" -> ToNumber(removeCommas(row["Weight (lbs)"]))
             [] h = "date"   -> InvalidDate
             [] OTHER        -> row[h]]
  IN  [i \in 1..Len(rows) |-> IF i <= done THEN mutated(rows[i]) ELSE rows[i]]

\* loadWasteData(): a rejection of d3.csv is caught and [] is returned.
LoadWasteData ==
  \E readable \in BOOLEAN :
    /\ loaded = NotLoaded
    /\ loaded' = IF readable
                 THEN [by |-> "loadWasteData", read |-> TRUE, input |-> csv, weights |-> Map(csv, parseWeightOrZero),
                       rows |-> loadWasteData(csv), error |-> "none"]
                 ELSE [by |-> "loadWasteData", read |-> FALSE, input |-> csv, weights |-> <<>>,
                       rows |-> <<>>, error |-> "caught"]
    /\ UNCHANGED <<data, result, csv, app, again, view>>

\* d3.csv(...).then(callback) of wasteData.js: the chain has no rejection
\* handler, and wasteData stays [] when d3.csv rejects.
WasteDataThen ==
  \E readable \in BOOLEAN :
    /\ loaded = NotLoaded
    /\ loaded' = IF readable
                 THEN [by |-> "wasteData.js", read |-> TRUE, input |-> csv, weights |-> Map(csv, parseWeight),
                       rows |-> wasteDataThen(csv), error |-> "none"]
                 ELSE [by |-> "wasteData.js", read |-> FALSE, input |-> csv, weights |-> <<>>,
                       rows |-> <<>>, error |-> "unhandled rejection"]
    /\ UNCHANGED <<data, result, csv, app, again, view>>

\* MaterialStreamGraph.loadCSVData: a rejection is caught, rawData stays [].
LoadCSVData ==
  \E readable \in BOOLEAN :
    /\ loaded = NotLoaded
    /\ loaded' = IF readable
                 THEN [by |-> "MaterialStreamGraph", read |-> TRUE, input |-> csv,
                       weights |-> IF Len(csv) > 0 THEN Map(csv, parseWeightOrZero) ELSE <<>>,
                       rows |-> loadCSVData(csv), error |-> "none"]
                 ELSE [by |-> "MaterialStreamGraph", read |-> FALSE, input |-> csv, weights |-> <<>>,
                       rows |-> <<>>, error |-> "caught"]
    /\ UNCHANGED <<data, result, csv, app, again, view>>

\* initVisualization of the standalone script: await d3.csv, then processData;
\* nothing catches what either of them raises.
InitVisualization ==
  \E readable \in BOOLEAN :
    /\ loaded = NotLoaded
    /\ loaded' = IF readable THEN scriptProcessData(csv)
                 ELSE [by |-> "script", read |-> FALSE, input |-> csv, weights |-> <<>>,
                       rows |-> <<>>, error |-> "unhandled rejection"]
    /\ csv' = IF readable THEN scriptRowsAfter(csv) ELSE csv
    /\ UNCHANGED <<data, result, app, again, view>>

\* A string held where null may be held too.
Text(str) == [t |-> "string", v |-> str]

\* useState(null) for data, selectedYear and error, useState(true) for
\* loading; fetchData has not run yet.
AppMounted ==
  [pc |-> "mounted", data |-> Null, selectedYear |-> Null, loading |-> TRUE, error |-> Null,
   fetches |-> 0, clicked |-> FALSE]

InitLoad ==
  /\ csv \in CsvSources
  /\ loaded = NotLoaded
  /\ data = <<>>
  /\ result = NoCall
  /\ app = AppMounted
  /\ again = NoCall
  /\ view = NoView

NextLoad ==
  \/ LoadWasteData
  \/ WasteDataThen
  \/ LoadCSVData
  \/ InitVisualization

SpecLoad == InitLoad /\ [][NextLoad]_vars

\* The exports of wasteData.js.  The module is evaluated once, top to
\* bottom: d3.csv(...) only starts the load, so wasteData is still [] when
\* the default export expression is evaluated, and the export keeps the
\* value the expression had then.
wasteDataAtEvaluation == <<>>

Predefined(category, material, weight) ==
  [Year |-> Num(2024), Category |-> category, MaterialType |-> material,
   Weight |-> Num(weight)]

predefinedData ==
  <<
     Predefined("Landfill", "L-Landfill", 150000),
     Predefined("Landfill", "L-Landfill", 140000),
     Predefined("Landfill", "L-Landfill", 145000),
     Predefined("Recycle", "R-Mixed recycling", 70000),
     Predefined("Recycle", "R-Mixed recycling", 75000),
     Predefined("Recycle", "R-Mixed recycling", 72000),
     Predefined("Compost", "C-Organics", 50000),
     Predefined("Compost", "C-Organics", 48000),
     Predefined("Compost", "C-Organics", 52000),
     Predefined("Landfill", "Food Waste", 60000),
     Predefined("Landfill", "Paper", 32000),
     Predefined("Landfill", "Plastic", 40000),
     Predefined("Landfill", "Other", 28000),
     Predefined("Recycle", "Paper", 40000),
     Predefined("Recycle", "Plastic", 22000),
     Predefined("Recycle", "Metal", 14000),
     Predefined("Recycle", "Glass", 12000),
     Predefined("Compost", "Food Waste", 55000),
     Predefined("Compost", "Yard Waste", 28000),
     Predefined("Compost", "Other Organics", 18000),
     Predefined("Landfill", "BOH Food Waste", 35000),
     Predefined("Landfill", "FOH Food Waste", 28000),
     Predefined("Landfill", "Recyclable Beverage Containers", 8000),
     Predefined("Landfill", "Compostable Serviceware", 15000),
     Predefined("Landfill", "Misc Compost", 10000),
     Predefined("Landfill", "Misc Recycling", 12000),
     Predefined("Landfill", "Liquids", 5000),
     Predefined("Landfill", "Surplus/Expired Food", 15000),
     Predefined("Landfill", "Misc Landfill", 25000)
  >>

defaultExport ==
  IF Len(wasteDataAtEvaluation) > 0 THEN wasteDataAtEvaluation ELSE predefinedData

\* ------------------------------------------------------------------ App
RECURSIVE MathMax(_)
\* Math.max(...years) of a non-empty sequence of numbers
MathMax(ns) ==
  IF Len(ns) = 1 THEN ns[1]
  ELSE LET m == MathMax(Tail(ns)) IN IF ns[1] > m THEN ns[1] ELSE m

\* The effect of App, run once after the mount (its dependency list is []):
\* fetchData up to its await of loadWasteData().
FetchData ==
  /\ app.pc = "mounted"
  /\ app' = [app EXCEPT !.pc = "awaiting", !.loading = TRUE, !.fetches = @ + 1]
  /\ UNCHANGED <<data, result, csv, loaded, again, view>>

\* loadWasteData() as fetchData calls it.
AppLoadWasteData ==
  /\ app.pc = "awaiting"
  /\ LoadWasteData

\* fetchData after its await: an empty wasteData is thrown as an Error, which
\* the catch turns into the error message.
FetchDataResume ==
  /\ app.pc = "awaiting"
  /\ loaded.by = "loadWasteData"
  /\ LET wasteData == loaded.rows
         years     == ArrayFromSet(Map(wasteData, LAMBDA d : d.Year.v))
     IN  app' = IF Len(wasteData) = 0
                THEN [app EXCEPT !.pc = "done", !.loading = FALSE,
                                 !.error = Text("Failed to load data. Please try again later.")]
                ELSE [app EXCEPT !.pc = "done", !.loading = FALSE, !.data = wasteData,
                                 !.selectedYear = Num(MathMax(years))]
  /\ UNCHANGED <<data, result, csv, loaded, again, view>>

\* The records App hands to TimeSeriesChart, as plain numbers.
AppRecords(rows) ==
  Map(rows, LAMBDA r : [Year |-> r.Year.v, Category |-> r.Category,
                        MaterialType |-> r.MaterialType, Weight |-> r.Weight.v])

Abs(n) == IF n < 0 THEN 0 - n ELSE n

RECURSIVE reduceClosest(_, _, _)
\* years.reduce((prev, curr) => |curr - xYear| < |prev - xYear| ? curr : prev)
\* from the element after prev on; every comparison with NaN is false.
reduceClosest(prev, rest, xYear) ==
  IF rest = <<>> THEN prev
  ELSE reduceClosest(IF xYear # NaN /\ Abs(Head(rest) - xYear.v) < Abs(prev - xYear.v)
                     THEN Head(rest) ELSE prev,
                     Tail(rest), xYear)

\* closestYear without the search among the years of the data.
closestYearUnsnapped(years, xYear) == IF xYear = NaN THEN Head(years) ELSE xYear.v

closestYear(years, xYear) == reduceClosest(Head(years), Tail(years), xYear)

\* Math.round(x.invert(mouseX)) of a click: a year on or off the axis, or NaN.
ClickedYears == {NaN} \cup {Num(y) : y \in {2020, 2021, 2022, 2023, 2024, 2025}}

\* A click on a stream of TimeSeriesChart, which App renders once loading is
\* over without error.
ClickTimeSeriesChart ==
  /\ app.pc = "done"
  /\ app.error = Null
  /\ LET processedData == TimeSeriesChartProcess(AppRecords(app.data))
         years         == Map(processedData, LAMBDA d : d.year)
     IN  /\ Len(processedData) > 0
         /\ \E xYear \in ClickedYears :
              app' = [app EXCEPT !.selectedYear = Num(closestYear(years, xYear)),
                                 !.clicked = TRUE]
  /\ UNCHANGED <<data, result, csv, loaded, again, view>>

\* Sources whose rows are all valid, of several years.
YearRows ==
  { [h \in {"Year", "Category", "Material Type", "Weight (lbs)"} |->
       CASE h = "Year" -> y
         [] h = "Category" -> "Recycle"
         [] h = "Material Type" -> "Paper"
         [] h = "Weight (lbs)" -> <<"1">>] :
    y \in {<<"2", "0", "2", "1">>, <<"2", "0", "2", "2">>, <<"2", "0", "2", "4">>} }

AppSources == CsvSources \cup SeqsUpTo(YearRows, MaxRows)

InitApp ==
  /\ csv \in AppSources
  /\ loaded = NotLoaded
  /\ data = <<>>
  /\ result = NoCall
  /\ app = AppMounted
  /\ again = NoCall
  /\ view = NoView

NextApp ==
  \/ FetchData
  \/ AppLoadWasteData
  \/ FetchDataResume
  \/ ClickTimeSeriesChart

SpecApp == InitApp /\ [][NextApp]_vars

\* -------------------------------------------------------------- actions
\* The values activeCategory || selectedCategory takes: every category, or one.
TreemapFilters == {"all", "Recycling"}
\* The values of the minimum-weight slider.
MinWeights == {0, MaxWeight}

CallPrepareTimeSeriesData ==
  /\ result = NoCall
  /\ result' = [op |-> "prepareTimeSeriesData", year |-> Undefined, out |-> prepareTimeSeriesData(data)]
  /\ UNCHANGED <<data, csv, loaded, app, again, view>>

CallProcessDataTimeSeries ==
  /\ result = NoCall
  /\ result' = [op |-> "processData.timeSeriesData", year |-> Undefined, out |-> processDataTimeSeries(data)]
  /\ UNCHANGED <<data, csv, loaded, app, again, view>>

CallTimeSeriesChartProcess ==
  /\ result = NoCall
  /\ result' = [op |-> "TimeSeriesChart", year |-> Undefined, out |-> TimeSeriesChartProcess(data)]
  /\ UNCHANGED <<data, csv, loaded, app, again, view>>

CallPrepareNetworkData ==
  \E year \in YearArgs :
    /\ result = NoCall
    /\ result' = [op |-> "prepareNetworkData", year |-> year, out |-> prepareNetworkData(data, year)]
    /\ UNCHANGED <<data, csv, loaded, app, again, view>>

CallGetNetworkData ==
  \E year \in YearArgs :
    /\ result = NoCall
    /\ result' = [op |-> "processData.networkData", year |-> year, out |-> getNetworkData(data, year)]
    /\ UNCHANGED <<data, csv, loaded, app, again, view>>

CallWasteCategoryChart ==
  /\ result = NoCall
  /\ result' = [op |-> "WasteCategoryChart", year |-> Undefined, out |-> WasteCategoryChartGraph(data)]
  /\ UNCHANGED <<data, csv, loaded, app, again, view>>

CallPrepareCompositionData ==
  \E year \in YearArgs :
    /\ result = NoCall
    /\ result' = [op |-> "prepareCompositionData", year |-> year, out |-> prepareCompositionData(data, year)]
    /\ UNCHANGED <<data, csv, loaded, app, again, view>>

CallGetCompositionData ==
  \E year \in YearArgs :
    /\ result = NoCall
    /\ result' = [op |-> "processData.compositionData", year |-> year, out |-> getCompositionData(data, year)]
    /\ UNCHANGED <<data, csv, loaded, app, again, view>>

CallPrepareDistributionData ==
  \E year \in YearArgs :
    /\ result = NoCall
    /\ result' = [op |-> "prepareDistributionData", year |-> year, out |-> prepareDistributionData(data, year)]
    /\ UNCHANGED <<data, csv, loaded, app, again, view>>

CallGetDistributionData ==
  \E year \in YearArgs :
    /\ result = NoCall
    /\ result' = [op |-> "processData.distributionData", year |-> year, out |-> getDistributionData(data, year)]
    /\ UNCHANGED <<data, csv, loaded, app, again, view>>

\* MaterialTreemapChart is given the graph of prepareNetworkData; activeCategory
\* and minWeight are what its buttons and its slider have set them to.
CallMaterialTreemapChart ==
  \E year \in YearArgs, categoryFilter \in TreemapFilters, minWeight \in MinWeights :
    /\ result = NoCall
    /\ result' = [op |-> "MaterialTreemapChart", year |-> year,
                  categoryFilter |-> categoryFilter, minWeight |-> minWeight,
                  out |-> MaterialTreemapHierarchy(prepareNetworkData(data, year), categoryFilter, minWeight)]
    /\ UNCHANGED <<data, csv, loaded, app, again, view>>

Init ==
  /\ data \in SeqsUpTo(Records, MaxLen)
  /\ result = NoCall
  /\ csv = <<>>
  /\ loaded = NotLoaded
  /\ app = AppMounted
  /\ again = NoCall
  /\ view = NoView

Next ==
  \/ CallPrepareTimeSeriesData
  \/ CallProcessDataTimeSeries
  \/ CallTimeSeriesChartProcess
  \/ CallPrepareNetworkData
  \/ CallGetNetworkData
  \/ CallWasteCategoryChart
  \/ CallPrepareCompositionData
  \/ CallGetCompositionData
  \/ CallPrepareDistributionData
  \/ CallGetDistributionData

Spec == Init /\ [][Next]_vars

\* ------------------------------------------------------- repeated calls
\* getAggregatedData() of wasteData.js on the module's wasteData: the nested
\* d3.group by Year, Category and MaterialType, walked in insertion order.
getAggregatedData(wasteData) ==
  LET ofYear(y) ==
        LET ofCategory(c) ==
              Map(d3group(c[2], LAMBDA d : d.MaterialType),
                  LAMBDA m : [Year |-> y[1], Category |-> c[1], MaterialType |-> m[1],
                              Weight |-> d3sum(m[2], LAMBDA d : d.Weight)])
        IN  Flatten(Map(d3group(y[2], LAMBDA d : d.Category), ofCategory))
  IN  Flatten(Map(d3group(wasteData, LAMBDA d : d.Year), ofYear))

\* The builders that are called twice on one input.
TwiceOps ==
  {"prepareTimeSeriesData", "prepareNetworkData", "prepareCompositionData",
   "prepareDistributionData", "getAggregatedData"}

\* The output of the builder called op.
Build(op, d, year) ==
  CASE op = "prepareTimeSeriesData"   -> prepareTimeSeriesData(d)
    [] op = "prepareNetworkData"      -> prepareNetworkData(d, year)
    [] op = "prepareCompositionData"  -> prepareCompositionData(d, year)
    [] op = "prepareDistributionData" -> prepareDistributionData(d, year)
    [] op = "getAggregatedData"       -> getAggregatedData(d)

\* inputAfterCall with the input array sorted in place by weight.
inputAfterCallSortedInPlace(d) == sort(d, LAMBDA a, b : b.Weight - a.Weight)

\* The input array once a builder has returned: the builders read it with
\* filter, map, d3.group and d3.rollup, and sort only arrays they have made.
inputAfterCall(d) == d

\* A first call of a builder on data.
CallBuilder ==
  \E op \in TwiceOps, year \in YearArgs :
    /\ result = NoCall
    /\ op \in {"prepareTimeSeriesData", "getAggregatedData"} => year = Undefined
    /\ result' = [op |-> op, year |-> year, input |-> data, out |-> Build(op, data, year)]
    /\ data' = inputAfterCall(data)
    /\ UNCHANGED <<csv, loaded, app, again, view>>

\* The same call made again, right after the first.
CallAgain ==
  /\ result.op \in TwiceOps
  /\ again = NoCall
  /\ again' = [op |-> result.op, year |-> result.year, input |-> data,
               out |-> Build(result.op, data, result.year)]
  /\ data' = inputAfterCall(data)
  /\ UNCHANGED <<result, csv, loaded, app, view>>

NextTwice ==
  \/ CallBuilder
  \/ CallAgain

\* The inputs of the repeated calls: records of two categories.
TwiceRecords ==
  [Year : Years, Category : {"Landfill", "Recycle"}, MaterialType : MaterialTypes,
   Weight : Weights]

InitTwice ==
  /\ data \in SeqsUpTo(TwiceRecords, MaxLen)
  /\ result = NoCall
  /\ csv = <<>>
  /\ loaded = NotLoaded
  /\ app = AppMounted
  /\ again = NoCall
  /\ view = NoView

SpecTwice == InitTwice /\ [][NextTwice]_vars

\* ------------------------------------------------------- zoomable treemap
\* ZoomableTreemap keeps one piece of zoom state, currentNode.  Its effect
\* runs after every change of currentNode and builds a new hierarchy each
\* time, so a node is known by the run that built it and its path from the
\* root.  The hierarchy has streams at depth 1 and materials at depth 2.

MaxRenders == 9
TreeFan == 2

TreePaths == {<<>>} \cup {<<i>> : i \in 1..TreeFan}
                    \cup {<<i, j>> : i, j \in 1..TreeFan}

HierarchyNode(run, path) == [run |-> run, path |-> path]

parentOf(d) ==
  IF d.path = <<>> THEN Null
  ELSE HierarchyNode(d.run, SubSeq(d.path, 1, Len(d.path) - 1))

ZoomRoot(v) == HierarchyNode(v.run, <<>>)

nodeToDisplay(v) == IF v.currentNode = Null THEN ZoomRoot(v) ELSE v.currentNode

IsPrefix(p, q) == Len(p) <= Len(q) /\ SubSeq(q, 1, Len(p)) = p

displayedNodes(v) ==
  LET shown == nodeToDisplay(v)
  IN  {HierarchyNode(shown.run, p) : p \in
         {q \in TreePaths : /\ IsPrefix(shown.path, q)
                            /\ Len(q) <= Len(shown.path) + 1}}

backLinkShown(v) == v.currentNode # Null /\ v.currentNode # ZoomRoot(v)

insightShown(v) == v.currentNode = Null \/ v.currentNode = ZoomRoot(v)

\* setCurrentNode with the value already held renders nothing; any other
\* value runs the effect again, which builds the next hierarchy.
setCurrentNode(v, node, click) ==
  IF node = v.currentNode
    THEN [v EXCEPT !.last = click]
    ELSE [v EXCEPT !.currentNode = node, !.run = v.run + 1, !.last = click]

ZoomMounted ==
  [of |-> "ZoomableTreemap", run |-> 1, currentNode |-> Null,
   last |-> "none"]

ClickRect ==
  /\ view.of = "ZoomableTreemap"
  /\ view.run < MaxRenders
  /\ \E d \in displayedNodes(view) :
       view' = setCurrentNode(view,
                 IF view.currentNode = d THEN parentOf(d) ELSE d, "rect")
  /\ UNCHANGED <<data, result, csv, loaded, app, again>>

ClickBackToOverview ==
  /\ view.of = "ZoomableTreemap"
  /\ view.run < MaxRenders
  /\ backLinkShown(view)
  /\ view' = setCurrentNode(view, ZoomRoot(view), "back")
  /\ UNCHANGED <<data, result, csv, loaded, app, again>>

InitZoom ==
  /\ data = <<>>
  /\ result = NoCall
  /\ csv = <<>>
  /\ loaded = NotLoaded
  /\ app = AppMounted
  /\ again = NoCall
  /\ view = ZoomMounted

NextZoom == ClickRect \/ ClickBackToOverview

SpecZoom == InitZoom /\ [][NextZoom]_vars

\* ------------------------------------------------- force-directed graph
\* ForceDirectedGraph draws a fixed graph.  Its effect runs at mount and
\* when year changes; the click handler it installs reads the selectedNode
\* of the render in which the effect ran.  Opacities are in hundredths.

nodeData ==
  << "Landfill", "Recycling", "Compost",
     "Compost in Recycling", "Compost in Landfill", "Landfill in Compost",
     "Recycling in Landfill",
     "Liquids", "Liquids in Landfill", "BOH Food Waste", "FOH Food Waste",
     "Recyclable Beverage Containers", "Compostable Serviceware",
     "Misc Compost", "Misc Recycling", "Misc Landfill", "Surplus/Expired Food" >>

GraphLink(source, target) == [source |-> source, target |-> target]

linkData ==
  << GraphLink("Compost", "Compost in Recycling"),
     GraphLink("Compost", "Compost in Landfill"),
     GraphLink("Recycling", "Recycling in Landfill"),
     GraphLink("Landfill", "Landfill in Compost"),
     GraphLink("Compost in Recycling", "Recycling"),
     GraphLink("Compost in Landfill", "Landfill"),
     GraphLink("Recycling in Landfill", "Landfill"),
     GraphLink("Landfill in Compost", "Compost"),
     GraphLink("Liquids", "Liquids in Landfill"),
     GraphLink("Liquids in Landfill", "Landfill"),
     GraphLink("BOH Food Waste", "Compost in Landfill"),
     GraphLink("FOH Food Waste", "Compost in Landfill"),
     GraphLink("Recyclable Beverage Containers", "Recycling"),
     GraphLink("Recyclable Beverage Containers", "Compost"),
     GraphLink("Compostable Serviceware", "Compost"),
     GraphLink("Misc Compost", "Compost"),
     GraphLink("Misc Recycling", "Recycling"),
     GraphLink("Misc Landfill", "Landfill"),
     GraphLink("Surplus/Expired Food", "Landfill") >>

LinkOpacity == 60
LinkOpacityConnected == 100
LinkOpacityOther == 10

drawnLinks == [i \in 1..Len(linkData) |-> LinkOpacity]

highlightLinks(id) ==
  [i \in 1..Len(linkData) |->
     IF linkData[i].source = id \/ linkData[i].target = id
     THEN LinkOpacityConnected ELSE LinkOpacityOther]

GraphMounted ==
  [of |-> "ForceDirectedGraph", year |-> 2024, yearChanged |-> FALSE,
   selectedNode |-> Null, handlerSelectedNode |-> Null,
   opacity |-> drawnLinks, clicked |-> Null, wasSelected |-> FALSE]

ClickNode ==
  /\ view.of = "ForceDirectedGraph"
  /\ \E i \in 1..Len(nodeData) :
       LET id == Text(nodeData[i])
       IN  view' =
             IF view.handlerSelectedNode = id
             THEN [view EXCEPT !.selectedNode = Null, !.opacity = drawnLinks,
                               !.clicked = id,
                               !.wasSelected = (view.selectedNode = id)]
             ELSE [view EXCEPT !.selectedNode = id,
                               !.opacity = highlightLinks(nodeData[i]),
                               !.clicked = id,
                               !.wasSelected = (view.selectedNode = id)]
  /\ UNCHANGED <<data, result, csv, loaded, app, again>>

ChangeYear ==
  /\ view.of = "ForceDirectedGraph"
  /\ \E year \in Years \ {view.year} :
       view' = [view EXCEPT !.year = year, !.yearChanged = TRUE,
                            !.handlerSelectedNode = view.selectedNode,
                            !.opacity = drawnLinks, !.clicked = Null,
                            !.wasSelected = FALSE]
  /\ UNCHANGED <<data, result, csv, loaded, app, again>>

InitGraph ==
  /\ data = <<>>
  /\ result = NoCall
  /\ csv = <<>>
  /\ loaded = NotLoaded
  /\ app = AppMounted
  /\ again = NoCall
  /\ view = GraphMounted

NextGraph == ClickNode \/ ChangeYear

SpecGraph == InitGraph /\ [][NextGraph]_vars

\* ------------------------------------------------- WasteCategoryChart
\* The effect of WasteCategoryChart up to the start of its simulation.  The
\* data prop is an array of records or is missing.

GivenArray(d) == [t |-> "array", v |-> d]

\* !actualData.length === 0: the negation is a boolean, and a boolean is
\* never strictly equal to the number 0.
notLengthIsZero(d) == LET notLength == (Len(d) = 0) IN FALSE

\* !actualData || !actualData.length === 0
noDataGuard(actualData) ==
  IF actualData.t # "array" THEN TRUE ELSE notLengthIsZero(actualData.v)

WasteCategoryChartEffect(actualData) ==
  IF noDataGuard(actualData)
  THEN [of |-> "WasteCategoryChart", given |-> actualData, message |-> TRUE,
        simulation |-> FALSE, nodes |-> <<>>, links |-> <<>>]
  ELSE LET graph == WasteCategoryChartGraph(actualData.v)
       IN  [of |-> "WasteCategoryChart", given |-> actualData, message |-> FALSE,
            simulation |-> TRUE, nodes |-> graph.nodes, links |-> graph.links]

RenderWasteCategoryChart ==
  /\ view = NoView
  /\ \E actualData \in {Null, Undefined, GivenArray(data)} :
       view' = WasteCategoryChartEffect(actualData)
  /\ UNCHANGED <<data, result, csv, loaded, app, again>>

NextChart == RenderWasteCategoryChart

SpecChart == Init /\ [][NextChart]_vars

\* ------------------------------------------------- inputs for the rankings
\* Material names of which two spell an array index.
RankMaterials == {"10", "9", "Paper"}

RankRecords ==
  [Year : {2024}, Category : {"Landfill", "Recycle", "Reuse"}, MaterialType : RankMaterials,
   Weight : Weights]

\* More material names than a top-K list keeps: those of the sample graph.
ManyMaterials ==
  LET materials == Filter(createSampleData.nodes, LAMBDA node : node.type = "material")
  IN  Map(materials, LAMBDA node : node.name)

\* One record per name of ManyMaterials, the p-th one (if any) heavier than the rest.
LongInputs ==
  { [i \in 1..Len(ManyMaterials) |->
       [Year |-> 2024, Category |-> "Landfill", MaterialType |-> ManyMaterials[i],
        Weight |-> IF i = p THEN MaxWeight ELSE 1]] : p \in 0..Len(ManyMaterials) }

InitRank ==
  /\ data \in SeqsUpTo(RankRecords, MaxLen + 1) \cup LongInputs
  /\ result = NoCall
  /\ csv = <<>>
  /\ loaded = NotLoaded
  /\ app = AppMounted
  /\ again = NoCall
  /\ view = NoView

\* The builders, and the treemap view on top of prepareNetworkData.
NextRank ==
  \/ Next
  \/ CallMaterialTreemapChart

SpecRank == InitRank /\ [][NextRank]_vars

\* ---------------------------------------------------- what is expected
\* The positions of data that pass a year filter (undefined: all of them).
Passing(year) == {i \in 1..Len(data) : year = Undefined \/ data[i].Year = year.v}

RECURSIVE WeightOf(_)
\* The sum of the weights of the records at the positions I of data.
WeightOf(I) ==
  IF I = {} THEN 0
  ELSE LET i == CHOOSE j \in I : TRUE IN data[i].Weight + WeightOf(I \ {i})

RECURSIVE Total(_)
\* The sum of a sequence of numbers.
Total(s) == IF s = <<>> THEN 0 ELSE Head(s) + Total(Tail(s))

\* The category a record counts under: "Recycle" and "Recycling" are one.
Bucket(c) == IF c \in {"Recycle", "Recycling"} THEN "Recycling" ELSE c

\* The (material, category) pairs of the records that pass a year filter.
PairsOf(year) == {<<data[i].MaterialType, Bucket(data[i].Category)>> : i \in Passing(year)}

\* The positions of the records of one (material, category) pair.
OfPair(year, pair) ==
  {i \in Passing(year) : data[i].MaterialType = pair[1] /\ Bucket(data[i].Category) = pair[2]}

\* The three loaders of records.
Loaders == {"loadWasteData", "wasteData.js", "MaterialStreamGraph"}

TimeSeriesOps == {"prepareTimeSeriesData", "processData.timeSeriesData", "TimeSeriesChart"}
GraphOps == {"prepareNetworkData", "processData.networkData", "WasteCategoryChart"}
TreeOps == {"prepareCompositionData", "processData.compositionData"}

\* A call the claims speak of: the closures of processData are given a year.
Called(ops) ==
  /\ result.op \in ops
  /\ result.op \in {"processData.networkData", "processData.compositionData",
                     "processData.distributionData"} => result.year # Undefined

\* The treemap view showing every category and every weight of a graph with nodes.
TreemapUnfiltered ==
  /\ result.op = "MaterialTreemapChart"
  /\ result.categoryFilter = "all"
  /\ result.minWeight = 0
  /\ Passing(result.year) # {}

\* The positions of the passing records of one material.
OfMaterial(year, m) == {i \in Passing(year) : data[i].MaterialType = m}

\* The sum of all leaf values of a tree.
LeafTotal(tree) ==
  Total([c \in 1..Len(tree.children) |->
           Total([l \in 1..Len(tree.children[c].children) |-> tree.children[c].children[l].value])])

\* ---------------------------------------------------------------- claims
\* C1: for every year Y present in the input, the entry prepareTimeSeriesData
\* returns for Y has total = the sum of the weights of all records of year Y,
\* whatever their category.
C1_TotalIsSumOfYear ==
  result.op = "prepareTimeSeriesData" =>
    \A Y \in {data[i].Year : i \in 1..Len(data)} :
      /\ \E k \in 1..Len(result.out) : result.out[k].year = Y
      /\ \A k \in 1..Len(result.out) :
           result.out[k].year = Y =>
             result.out[k].total = WeightOf({i \in 1..Len(data) : data[i].Year = Y})

\* C2: records of category "Recycle" and records of category "Recycling" land
\* in one single "Recycling" bucket in every builder output: the yearly
\* recycling total, the "Recycling" node of the tree (one leaf per material,
\* of the summed weight) and the "Recycling" node of the graph.
C2_RecycleAndRecyclingShareOneBucket ==
  LET recycled(year) == {i \in Passing(year) : Bucket(data[i].Category) = "Recycling"}
      out == result.out
  IN  /\ result.op \in {"prepareTimeSeriesData", "TimeSeriesChart"} =>
           \A k \in 1..Len(out) :
             out[k].recycling = WeightOf({i \in recycled(Undefined) : data[i].Year = out[k].year})
      /\ result.op = "prepareCompositionData" =>
           \A c \in 1..Len(out.children) :
             out.children[c].name = "Recycling" =>
               \A m \in {data[i].MaterialType : i \in recycled(result.year)} :
                 /\ Cardinality({l \in 1..Len(out.children[c].children) :
                                   out.children[c].children[l].name = m}) = 1
                 /\ \A l \in 1..Len(out.children[c].children) :
                      out.children[c].children[l].name = m =>
                        out.children[c].children[l].value =
                          WeightOf({i \in recycled(result.year) : data[i].MaterialType = m})
      /\ (result.op = "prepareNetworkData" /\ recycled(result.year) # {}) =>
           /\ Cardinality({n \in 1..Len(out.nodes) :
                             out.nodes[n].name = "Recycling" /\ out.nodes[n].type = "category"}) = 1
           /\ \A n \in 1..Len(out.nodes) : out.nodes[n].name # "Recycle"
           /\ Total([l \in 1..Len(out.links) |->
                       IF out.links[l].targetName = "Recycling" THEN out.links[l].value ELSE 0])
                = WeightOf(recycled(result.year))

\* C3: every record a loader returns has a non-null year, a non-empty category
\* and a weight > 0; a raw row with a missing year, a blank category, or a
\* weight that is missing, "", "0" or without any digit is not among them.
C3_LoadedRecordsValid ==
  LET excluded(row) ==
        \/ "Year" \notin DOMAIN row
        \/ "Category" \notin DOMAIN row
        \/ row["Category"] = ""
        \/ "Weight (lbs)" \notin DOMAIN row
        \/ row["Weight (lbs)"] \in {<<>>, <<"0">>}
        \/ \A j \in 1..Len(row["Weight (lbs)"]) : row["Weight (lbs)"][j] \notin Digits
  IN  loaded.by \in Loaders =>
        /\ \A k \in 1..Len(loaded.rows) :
             /\ loaded.rows[k].Year # Null
             /\ loaded.rows[k].Year.t = "num"
             /\ loaded.rows[k].Category # ""
             /\ loaded.rows[k].Weight.t = "num"
             /\ loaded.rows[k].Weight.v > 0
        /\ Len(loaded.rows) <= Cardinality({i \in 1..Len(csv) : ~excluded(csv[i])})

\* C3's case: a loader ran on a source with a row it keeps and a row it drops.
C3_Witness ==
  /\ loaded.by \in Loaders
  /\ Len(loaded.rows) >= 1
  /\ Len(loaded.rows) < Len(csv)
  /\ \E i \in 1..Len(csv) :
       "Weight (lbs)" \in DOMAIN csv[i] /\ csv[i]["Weight (lbs)"] \in {<<"x">>, <<"0">>, <<>>}

\* C4: the sum of all leaf values under the root prepareCompositionData returns
\* equals the sum of the weights of all records that pass the year filter,
\* whatever their category.
C4_HierarchyConservation ==
  result.op = "prepareCompositionData" => LeafTotal(result.out) = WeightOf(Passing(result.year))

\* C5: the sum of the value of all links prepareNetworkData returns equals the
\* sum of the weights of all records that pass the year filter.
C5_GraphConservation ==
  result.op = "prepareNetworkData" =>
    Total([l \in 1..Len(result.out.links) |-> result.out.links[l].value])
      = WeightOf(Passing(result.year))

\* C5's case: prepareNetworkData was called with a year that some record is
\* not of, and a record of a category other than the three main ones passes.
C5_Witness ==
  /\ result.op = "prepareNetworkData"
  /\ result.year # Undefined
  /\ Passing(result.year) # 1..Len(data)
  /\ \E l \in 1..Len(result.out.links) :
       result.out.links[l].targetName = "Reuse" /\ result.out.links[l].value > 1

\* C6: the graph builder emits exactly one link per distinct (material,
\* normalized category) pair of the filtered records, of weight the sum of the
\* weights of the records of that pair.
C6_OneLinkPerPair ==
  LET out == result.out
      pairOf(l) == IF result.op = "prepareNetworkData"
                   THEN <<out.links[l].sourceName, out.links[l].targetName>>
                   ELSE <<out.links[l].source, out.links[l].target>>
  IN  /\ Called(GraphOps) => Len(out.links) = Cardinality(PairsOf(result.year))
      /\ result.op \in {"prepareNetworkData", "WasteCategoryChart"} =>
           \A pair \in PairsOf(result.year) :
             \E l \in 1..Len(out.links) :
               /\ pairOf(l) = pair
               /\ out.links[l].value = WeightOf(OfPair(result.year, pair))

\* C7: no two nodes of the node list the graph builder returns have the same
\* name, also when a material is called like a category.
C7_NodeNamesDistinct ==
  Called(GraphOps) =>
    \A i, j \in 1..Len(result.out.nodes) :
      result.out.nodes[i].name = result.out.nodes[j].name => i = j

\* C8: every link prepareNetworkData returns goes from a material node to a
\* category node, which are two different nodes.
C8_LinksMaterialToCategory ==
  result.op = "prepareNetworkData" =>
    \A l \in 1..Len(result.out.links) :
      LET link == result.out.links[l]
      IN  /\ link.source # link.target
          /\ link.source \in 0..(Len(result.out.nodes) - 1)
          /\ link.target \in 0..(Len(result.out.nodes) - 1)
          /\ result.out.nodes[link.source + 1].type = "material"
          /\ result.out.nodes[link.target + 1].type = "category"

\* C9: every yearly entry of the aggregation defines the four category totals
\* landfill, recycling, compost and reuse.
C9_AllFourTotalsDefined ==
  result.op \in TimeSeriesOps =>
    \A k \in 1..Len(result.out) :
      {"landfill", "recycling", "compost", "reuse"} \subseteq DOMAIN result.out[k]

\* C10: under each category node of the tree there is exactly one leaf per
\* distinct material of that category in the filtered records, of value the
\* sum of the weights of the records of that (category, material) pair.
C10_OneLeafPerMaterial ==
  Called(TreeOps) =>
    \A c \in 1..Len(result.out.children) :
      LET node  == result.out.children[c]
          under == {pair \in PairsOf(result.year) : pair[2] = node.name}
      IN  /\ Len(node.children) = Cardinality(under)
          /\ \A pair \in under :
               \E l \in 1..Len(node.children) :
                 /\ node.children[l].name = pair[1]
                 /\ node.children[l].value = WeightOf(OfPair(result.year, pair))

\* C11: the root the hierarchy builder returns has exactly one child per
\* category that occurs in the filtered records: none for a category without
\* a record, one for every category that occurs, Reuse and unrecognized
\* categories included.
C11_OneChildPerCategory ==
  (result.op = "prepareCompositionData" \/ TreemapUnfiltered) =>
    LET children == result.out.children
        present  == {Bucket(data[i].Category) : i \in Passing(result.year)}
    IN  /\ {children[c].name : c \in 1..Len(children)} = present
        /\ Len(children) = Cardinality(present)

\* C12: the children of every category node are in descending order of value,
\* and of two materials of equal value the one whose name appears first in the
\* input records of that category comes first, for prepareCompositionData and
\* for MaterialTreemapChart.processDataToHierarchy, also when material names
\* look like numbers.
C12_ChildrenByValueStable ==
  (result.op = "prepareCompositionData" \/ TreemapUnfiltered) =>
    \A c \in 1..Len(result.out.children) :
      LET node == result.out.children[c]
          first(l) == First(OfPair(result.year, <<node.children[l].name, node.name>>))
      IN  \A l, l2 \in 1..Len(node.children) :
            l < l2 =>
              \/ node.children[l].value > node.children[l2].value
              \/ /\ node.children[l].value = node.children[l2].value
                 /\ first(l) < first(l2)

\* C13: the top-K operation (K = 12 for prepareDistributionData, K = 10 for
\* processData.distributionData) returns min(K, number of distinct materials)
\* materials, each with its total weight over all categories, in descending
\* order of total, materials of equal total in first-appearance order, and no
\* material left out has a greater total than a material returned.
C13_TopKByTotalStable ==
  Called({"prepareDistributionData", "processData.distributionData"}) =>
    LET out       == result.out
        K         == IF result.op = "prepareDistributionData" THEN PrepareDistributionTop
                     ELSE GetDistributionTop
        materials == {data[i].MaterialType : i \in Passing(result.year)}
        total(m)  == WeightOf(OfMaterial(result.year, m))
        first(m)  == First(OfMaterial(result.year, m))
        returned  == {out[l].name : l \in 1..Len(out)}
    IN  /\ Len(out) = IF Cardinality(materials) < K THEN Cardinality(materials) ELSE K
        /\ returned \subseteq materials
        /\ \A l \in 1..Len(out) : out[l].totalWeight = total(out[l].name)
        /\ \A l, l2 \in 1..Len(out) :
             l < l2 =>
               \/ out[l].totalWeight > out[l2].totalWeight
               \/ /\ out[l].totalWeight = out[l2].totalWeight
                  /\ first(out[l].name) < first(out[l2].name)
        /\ \A m \in materials \ returned :
             \A l \in 1..Len(out) : total(m) <= out[l].totalWeight

\* C14: of an empty record sequence every builder returns an empty well-formed
\* result: prepareTimeSeriesData and prepareDistributionData an empty
\* sequence, prepareNetworkData a graph without nodes and links,
\* prepareCompositionData a root whose list of children is empty.
C14_EmptyInputEmptyResult ==
  data = <<>> =>
    /\ result.op \in {"prepareTimeSeriesData", "prepareDistributionData"} => result.out = <<>>
    /\ result.op = "prepareNetworkData" => result.out = [nodes |-> <<>>, links |-> <<>>]
    /\ result.op = "prepareCompositionData" =>
         /\ result.out.name = "Total Waste"
         /\ result.out.children = <<>>

\* C15: when the CSV source cannot be read, the loader ends with an empty
\* record set and no error reaches its caller: loadWasteData resolves to [],
\* wasteData.js and MaterialStreamGraph keep an empty record set, and no
\* rejection is left unhandled.
C15_UnreadableSourceYieldsEmpty ==
  (loaded.by \in Loaders /\ ~loaded.read) =>
    /\ loaded.rows = <<>>
    /\ loaded.error \in {"none", "caught"}

\* C17: a loader parses the weight field by removing every thousands separator
\* and converting the rest to a number; when the field is missing, blank or
\* does not start with a number the weight is exactly 0; no loader makes a NaN
\* weight or raises on a missing weight field.
C17_FailedWeightIsZero ==
  (loaded.by # "none" /\ loaded.read) =>
    /\ loaded.error = "none"
    /\ Len(loaded.weights) = Len(csv)
    /\ \A i \in 1..Len(loaded.weights) :
         LET blank   == ~CharsTruthy(csv[i], "Weight (lbs)")
             rest    == IF blank THEN <<>> ELSE removeCommas(csv[i]["Weight (lbs)"])
             body    == IF rest # <<>> /\ rest[1] = "-" THEN Tail(rest) ELSE rest
             numeral == body # <<>> /\ \A j \in 1..Len(body) : body[j] \in Digits
             fails   == body = <<>> \/ body[1] \notin Digits
         IN  /\ loaded.weights[i] # NaN
             /\ fails => loaded.weights[i] = Num(0)
             /\ numeral => loaded.weights[i] =
                              Num(IF body = rest THEN DecimalValue(body) ELSE 0 - DecimalValue(body))

\* C18: every record a loader returns has its category normalized: a raw
\* "Recycle" has become "Recycling", any other category is as it was in its
\* row; no loaded record has the category "Recycle".
C18_LoadedCategoryNormalized ==
  loaded.by \in Loaders =>
    \A k \in 1..Len(loaded.rows) :
      /\ loaded.rows[k].Category # "Recycle"
      /\ \E i \in 1..Len(csv) :
           /\ "Category" \in DOMAIN csv[i]
           /\ loaded.rows[k].Category = normalizeCategory(csv[i]["Category"])

\* C16: when the load yields an empty record set, App ends in a "no data"
\* state that is not its error state: error stays null and loading is over;
\* and fetchData runs once per mount, so no second load is started.
C16_EmptyLoadIsNoDataNotError ==
  /\ app.fetches <= 1
  /\ (app.pc = "done" /\ loaded.rows = <<>>) =>
       /\ app.error = Null
       /\ app.loading = FALSE

\* C19: for every builder that takes a year (prepareNetworkData,
\* prepareCompositionData, prepareDistributionData and the closures of
\* processData), the records that contribute to the result are those of the
\* year when a year is given, and all records of all years when it is omitted:
\* the graph has one link per such record and their weight, the tree has the
\* weight of those of them whose category it has a node for, the distribution
\* has their weight.
C19_YearFilter ==
  LET out          == result.out
      contributing == Passing(result.year)
      withNode     == {i \in contributing : data[i].Category \in {"Landfill", "Recycle", "Compost"}}
  IN  /\ result.op \in {"prepareNetworkData", "processData.networkData"} =>
           /\ Len(out.links) = Cardinality(contributing)
           /\ Total([l \in 1..Len(out.links) |-> out.links[l].value]) = WeightOf(contributing)
      /\ result.op \in TreeOps => LeafTotal(out) = WeightOf(withNode)
      /\ result.op \in {"prepareDistributionData", "processData.distributionData"} =>
           Total([l \in 1..Len(out) |-> out[l].totalWeight]) = WeightOf(contributing)

\* C20: the time series has exactly one entry per distinct year of the input
\* records and its entries are in strictly ascending numeric order of year,
\* for prepareTimeSeriesData, processData(data).timeSeriesData and the
\* grouping of TimeSeriesChart, whatever the order of the records and the
\* number of digits of their years.
C20_OneEntryPerYearAscending ==
  result.op \in TimeSeriesOps =>
    LET out == result.out
    IN  /\ {out[k].year : k \in 1..Len(out)} = {data[i].Year : i \in 1..Len(data)}
        /\ Len(out) = Cardinality({data[i].Year : i \in 1..Len(data)})
        /\ \A k, k2 \in 1..Len(out) : k < k2 => out[k].year < out[k2].year

\* C21: in the graph prepareNetworkData returns, the category nodes and then
\* the material nodes are each in the order in which their names first appear
\* in the filtered records, and the links are in the order in which their
\* (material, category) pairs first appear, one link per pair.
C21_FirstAppearanceOrder ==
  result.op = "prepareNetworkData" =>
    LET out      == result.out
        yearData == SelectSeq(data, LAMBDA r : result.year = Undefined \/ r.Year = result.year.v)
        names(s) == [i \in 1..Len(s) |-> s[i].name]
    IN  /\ names(out.nodes) =
             ArrayFromSet([i \in 1..Len(yearData) |-> Bucket(yearData[i].Category)])
               \o ArrayFromSet([i \in 1..Len(yearData) |-> yearData[i].MaterialType])
        /\ [l \in 1..Len(out.links) |-> <<out.links[l].sourceName, out.links[l].targetName>>] =
             ArrayFromSet([i \in 1..Len(yearData) |->
                             <<yearData[i].MaterialType, Bucket(yearData[i].Category)>>])

C23_InputUnchanged ==
  /\ loaded.by # "none" => csv = loaded.input
  /\ again # NoCall => data = result.input

\* C24: when there is no real data (no record passes, so the graph given to
\* the view has no nodes), MaterialTreemapChart builds its hierarchy from no
\* records: the root has no category and no leaf, nothing made up stands in.
C24_NoFabricatedData ==
  (result.op = "MaterialTreemapChart" /\ Passing(result.year) = {}) =>
    /\ result.out.children = <<>>
    /\ LeafTotal(result.out) = 0

\* C25: after any zoom clicks, a click on "Back to Overview" leaves the
\* treemap in its overview: the node displayed is the root of the current
\* hierarchy, the link is gone and the insight text is shown again.
C25_BackToOverviewRestores ==
  (view.of = "ZoomableTreemap" /\ view.last = "back") =>
    /\ nodeToDisplay(view) = ZoomRoot(view)
    /\ ~backLinkShown(view)
    /\ insightShown(view)

\* C26: once the load of wasteData.js has completed with at least one
\* valid row, the default export of the module is the loaded data, and the
\* predefined data is exported only when the load failed or kept no row.
C26_DefaultExportIsLoadedData ==
  /\ (loaded.by = "wasteData.js" /\ Len(loaded.rows) >= 1) =>
        defaultExport = loaded.rows
  /\ defaultExport = predefinedData =>
        (loaded.by = "wasteData.js" => Len(loaded.rows) = 0)

\* C27: in the graph that prepareNetworkData or processData.networkData
\* returns, the source and the target of every link are indices of nodes of
\* that graph, never -1, whatever the categories of the records are.
C27_LinkEndsAreNodeIndices ==
  result.op \in {"prepareNetworkData", "processData.networkData"} =>
    \A i \in 1..Len(result.out.links) :
      /\ result.out.links[i].source \in 0..(Len(result.out.nodes) - 1)
      /\ result.out.links[i].target \in 0..(Len(result.out.nodes) - 1)

\* C28: while the year does not change, a click on a node of the
\* force-directed graph toggles the selection: a click on a node that is not
\* selected selects it, and a click on the selected node sets selectedNode to
\* null and puts every link back at opacity 0.6.
C28_ClickTogglesSelection ==
  (view.of = "ForceDirectedGraph" /\ ~view.yearChanged /\ view.clicked # Null) =>
    IF view.wasSelected
    THEN /\ view.selectedNode = Null
         /\ \A i \in 1..Len(linkData) : view.opacity[i] = LinkOpacity
    ELSE view.selectedNode = view.clicked

\* C29: after a successful load the selectedYear of App is the greatest year
\* of the loaded records, and after any clicks on the time-series chart it is
\* still the year of some loaded record.
C29_SelectedYearIsLoadedYear ==
  (app.pc = "done" /\ app.error = Null) =>
    /\ \E i \in 1..Len(loaded.rows) : app.selectedYear = loaded.rows[i].Year
    /\ ~app.clicked =>
         \A i \in 1..Len(loaded.rows) : loaded.rows[i].Year.v <= app.selectedYear.v

\* C29 happens: a click has moved selectedYear off the greatest loaded year.
C29_Witness ==
  /\ app.pc = "done"
  /\ app.clicked
  /\ \E i \in 1..Len(loaded.rows) : loaded.rows[i].Year.v > app.selectedYear.v

\* C30: given no data or an empty array, WasteCategoryChart shows "No data
\* available for the selected criteria" and returns before it builds nodes,
\* links or a simulation.
C30_EmptyDataShowsMessage ==
  (view.of = "WasteCategoryChart"
     /\ (view.given \in {Null, Undefined} \/ view.given = GivenArray(<<>>))) =>
    /\ view.message
    /\ ~view.simulation

====
